---- MODULE Spec2Model ----
(***************************************************************************)
(* czid-dedup: the cluster store (src/src/clusters.rs) and the paired      *)
(* record synchronizer (src/src/paired.rs).                                *)
(***************************************************************************)
EXTENDS Integers, Sequences, FiniteSets, TLC

VARIABLES
  mode,                \* which loop run_dedup dispatched to: "single" or "paired"
  prefix_length_opt,   \* Clusters.prefix_length_opt: None or a length
  cluster_map,         \* Clusters.cluster_map: fingerprint -> [id, size]
  cluster_csv_writer,  \* Clusters.cluster_csv_writer: None or the rows written
  total_records,       \* Clusters.total_records
  calls,               \* log of the insert calls: record, fingerprint, result
  records_r1,          \* PairedRecords.records_r1: the elements not yet pulled
  records_r2,          \* PairedRecords.records_r2
  pulled,              \* what the two underlying next() calls of the last step returned
  item,                \* what the last PairedRecords::next returned
  steps,               \* number of PairedRecords::next calls made
  pulls,               \* number of next() calls made on each underlying stream
  inputs,              \* the two underlying streams as handed to PairedRecords::new
  cluster_sizes_writer,  \* run_dedup's cluster_sizes_writer: None or the rows written
  sizes_ret,           \* what Clusters::write_sizes returned, None before the call
  first_run,           \* None, or the calls and the final store of an earlier run
  pc,                  \* where run_dedup is: "idle", "start", "loop", "report", "done"
  input_bytes,         \* the first byte of each input file given to run_dedup
  n_outputs,           \* the number of deduped outputs given to run_dedup
  writer_r1,           \* dedup!'s writer_r1: None or the records written
  writer_r2,           \* dedup!'s writer_r2
  result               \* None, or what run_dedup returned

storeVars == << mode, prefix_length_opt, cluster_map, cluster_csv_writer,
                total_records, calls >>
syncVars == << records_r1, records_r2, pulled, item, steps, pulls, inputs >>
reportVars == << cluster_sizes_writer, sizes_ret >>
runVars == << pc, input_bytes, n_outputs, writer_r1, writer_r2, result >>
vars == << mode, prefix_length_opt, cluster_map, cluster_csv_writer,
           total_records, calls, records_r1, records_r2, pulled, item, steps,
           pulls, inputs, cluster_sizes_writer, sizes_ret, first_run,
           pc, input_bytes, n_outputs, writer_r1, writer_r2, result >>

(***************************************************************************)
(* Bounds of the model.                                                    *)
(***************************************************************************)
\* longest sequence of a record
MaxLen == 2
\* number of insert_single calls on one store
MaxInserts == 3
\* number of insert_pair calls on one store
MaxPairs == 2
\* longest underlying record stream of the synchronizer
MaxStream == 2

\* bytes a sequence is made of: NUL and 'A'
Bytes == {0, 65}
\* read identifiers
Ids == {"id_a", "id_b"}
\* Option: None, Some(v)
None == << >>
Some(v) == << v >>

\* all byte sequences of length at most n
RECURSIVE SeqsUpTo(_)
SeqsUpTo(n) ==
  IF n = 0 THEN {<< >>}
  ELSE LET shorter == SeqsUpTo(n - 1)
       IN shorter \cup {Append(s, b) : s \in {t \in shorter : Len(t) = n - 1}, b \in Bytes}

SeqSet == SeqsUpTo(MaxLen)

(***************************************************************************)
(* 64-bit words, as four 16-bit limbs, least significant first.            *)
(***************************************************************************)
Limb == 2^16

RECURSIVE Xor16(_, _, _)
Xor16(a, b, n) ==
  IF n = 0 THEN 0
  ELSE ((a + b) % 2) + 2 * Xor16(a \div 2, b \div 2, n - 1)

Xor64(a, b) ==
  << Xor16(a[1], b[1], 16), Xor16(a[2], b[2], 16),
     Xor16(a[3], b[3], 16), Xor16(a[4], b[4], 16) >>

Add64(a, b) ==
  LET c1 == (a[1] + b[1]) \div Limb
      c2 == (a[2] + b[2] + c1) \div Limb
      c3 == (a[3] + b[3] + c2) \div Limb
  IN << (a[1] + b[1]) % Limb,
        (a[2] + b[2] + c1) % Limb,
        (a[3] + b[3] + c2) % Limb,
        (a[4] + b[4] + c3) % Limb >>

Pow2(n) == 2^n

\* rotate left by n bits, 0 <= n < 64
Rotl64(a, n) ==
  LET q == n \div 16
      r == n % 16
      limb(i) == a[((i + 7) % 4) + 1]
      out(i) == ((limb(i - q) % Pow2(16 - r)) * Pow2(r))
                + (IF r = 0 THEN 0 ELSE limb((i - q) - 1) \div Pow2(16 - r))
  IN << out(1), out(2), out(3), out(4) >>

\* eight little-endian bytes as one word
Word(bs) ==
  << bs[1] + 256 * bs[2], bs[3] + 256 * bs[4],
     bs[5] + 256 * bs[6], bs[7] + 256 * bs[8] >>

(***************************************************************************)
(* std::collections::hash_map::DefaultHasher: SipHash-1-3 with key (0, 0). *)
(* The hasher state is modelled by the stream of bytes written to it.      *)
(***************************************************************************)
\* F applied to the value of x (x is evaluated once)
Apply(F(_), x) == CHOOSE r \in {F(y) : y \in {x}} : TRUE

\* one SipRound, in four steps on the state << v0, v1, v2, v3 >>
\* v0 += v1; v2 += v3
RoundAdd1(v) == << Add64(v[1], v[2]), v[2], Add64(v[3], v[4]), v[4] >>
\* v1 = rotl(v1, 13) ^ v0; v0 = rotl(v0, 32); v3 = rotl(v3, 16) ^ v2
RoundMix1(v) ==
  << Rotl64(v[1], 32), Xor64(Rotl64(v[2], 13), v[1]), v[3], Xor64(Rotl64(v[4], 16), v[3]) >>
\* v0 += v3; v2 += v1
RoundAdd2(v) == << Add64(v[1], v[4]), v[2], Add64(v[3], v[2]), v[4] >>
\* v3 = rotl(v3, 21) ^ v0; v1 = rotl(v1, 17) ^ v2; v2 = rotl(v2, 32)
RoundMix2(v) ==
  << v[1], Xor64(Rotl64(v[2], 17), v[3]), Rotl64(v[3], 32), Xor64(Rotl64(v[4], 21), v[1]) >>

SipRound(v) == Apply(RoundMix2, Apply(RoundAdd2, Apply(RoundMix1, Apply(RoundAdd1, v))))

\* v3 ^= m before the round, v0 ^= m after it; vm is << v, m >>
XorV3(vm) == << << vm[1][1], vm[1][2], vm[1][3], Xor64(vm[1][4], vm[2]) >>, vm[2] >>
RoundV(vm) == << SipRound(vm[1]), vm[2] >>
XorV0(vm) == << Xor64(vm[1][1], vm[2]), vm[1][2], vm[1][3], vm[1][4] >>
Compress(v, m) == Apply(XorV0, Apply(RoundV, Apply(XorV3, << v, m >>)))

RECURSIVE Blocks(_, _)
Blocks(v, bytes) ==
  IF Len(bytes) < 8 THEN v
  ELSE Blocks(Compress(v, Word(SubSeq(bytes, 1, 8))), SubSeq(bytes, 9, Len(bytes)))

\* the last block: the bytes left over, and the length in the top byte
LastBlock(bytes) ==
  LET n == Len(bytes)
      tail == SubSeq(bytes, (n - (n % 8)) + 1, n)
  IN Word([i \in 1..8 |-> IF i <= Len(tail) THEN tail[i]
                          ELSE IF i = 8 THEN n % 256 ELSE 0])

\* v2 ^= 0xff, three rounds, v0 ^ v1 ^ v2 ^ v3
XorV2(v) == << v[1], v[2], Xor64(v[3], << 255, 0, 0, 0 >>), v[4] >>
XorAll(v) == Xor64(Xor64(v[1], v[2]), Xor64(v[3], v[4]))
Finalize(v) == Apply(XorAll, SipRound(SipRound(SipRound(Apply(XorV2, v)))))

SipInit ==
  << << 25973, 28787, 28005, 29551 >>,    \* 0x736f6d6570736575
     << 28525, 28260, 29281, 25711 >>,    \* 0x646f72616e646f6d
     << 29281, 28261, 26469, 27769 >>,    \* 0x6c7967656e657261
     << 25971, 31092, 25698, 29797 >> >>  \* 0x7465646279746573

SipHash13(bytes) == Finalize(Compress(Blocks(SipInit, bytes), LastBlock(bytes)))

\* the byte streams the store can write to a hasher, and their hashes
HashStreams == SeqSet \cup {p1 \o << 0, 0, 0, 0 >> \o p2 : p1 \in SeqSet, p2 \in SeqSet}
HashTable == [bytes \in HashStreams |-> SipHash13(bytes)]

\* DefaultHasher::finish after the bytes were written
finish(bytes) == HashTable[bytes]

(***************************************************************************)
(* Records (src/src/fastx.rs) and validated pairs (src/src/paired.rs).     *)
(***************************************************************************)
Record(id, seq) == [id |-> id, seq |-> seq]
RecordSet == {Record(id, seq) : id \in Ids, seq \in SeqSet}

PairedRecord(r1, r2) == [r1 |-> r1, r2 |-> r2]
\* PairedRecord::id
PairedId(record) == record.r1.id

Ok(v) == [tag |-> "Ok", val |-> v]
Err(kind, msg) == [tag |-> "Err", kind |-> kind, msg |-> msg]

(***************************************************************************)
(* The cluster store.                                                      *)
(***************************************************************************)
Min(a, b) == IF a < b THEN a ELSE b

\* faulty variant of get_prefix: the configured prefix length is ignored
get_prefix_whole(seq) == seq

\* faulty variant of get_prefix: a prefix holds at least one byte
get_prefix_one_byte(seq) ==
  LET seq_length == Len(seq)
      prefix_length == IF prefix_length_opt = None THEN seq_length
                       ELSE IF prefix_length_opt[1] = 0 THEN Min(1, seq_length)
                       ELSE Min(prefix_length_opt[1], seq_length)
  IN SubSeq(seq, 1, prefix_length)

\* Clusters::get_prefix
get_prefix(seq) ==
  LET seq_length == Len(seq)
      prefix_length == IF prefix_length_opt = None THEN seq_length
                       ELSE Min(prefix_length_opt[1], seq_length)
  IN SubSeq(seq, 1, prefix_length)

\* Hash::hash(&0, ..): the i32 zero, four bytes
Sentinel == << 0, 0, 0, 0 >>

\* the bytes insert_single writes to the hasher
SingleStream(record) == get_prefix(record.seq)

\* the bytes insert_pair writes to the hasher
PairStream(record) ==
  get_prefix(record.r1.seq) \o Sentinel \o get_prefix(record.r2.seq)

\* faulty variant of WriteRow: the row is put right after the header, not at the end
WriteRowAfterHeader(writer, row, wok) ==
  IF wok THEN << Head(writer), row >> \o Tail(writer) ELSE writer

\* the csv write of one row: appended when the write succeeds
WriteRow(writer, row, wok) == IF wok THEN Append(writer, row) ELSE writer

CsvError == Err("Io", "csv write failed")

\* faulty variant of HitRow: the representative column holds the inserted record
HitRowSelf(cluster, id) == << id, id >>

\* the row a hit writes, the row a miss writes
HitRow(cluster, id) == << cluster.id, id >>
MissRow(id) == << id, id >>

\* faulty variant of NewCluster: the first record of a cluster is not counted
NewClusterEmpty(id) == [id |-> id, size |-> 0]

\* Cluster { id, size: 1 }
NewCluster(id) == [id |-> id, size |-> 1]

\* faulty variant of InsertResult: every successful insert signals a new cluster
InsertResultAlwaysNew(hit, wok) ==
  IF cluster_csv_writer # None /\ ~wok THEN CsvError ELSE Ok(TRUE)

\* faulty variant of InsertResult: without a row sink every insert signals a
\* new cluster
InsertResultAbsentTrue(hit, wok) ==
  IF cluster_csv_writer = None THEN Ok(TRUE)
  ELSE IF ~wok THEN CsvError ELSE Ok(~hit)

\* what insert_record returns
InsertResult(hit, wok) ==
  IF cluster_csv_writer # None /\ ~wok THEN CsvError ELSE Ok(~hit)

\* faulty variant of IncTotal: only a miss is counted
IncTotalMissOnly(hit) == IF hit THEN total_records ELSE total_records + 1

\* self.total_records += 1
IncTotal(hit) == total_records + 1

\* faulty variant of insert_record: a failed row write of a miss returns before
\* the cluster is stored
insert_record_write_first(seq_hash, id, wok, record) ==
  LET hit == seq_hash \in DOMAIN cluster_map IN
  /\ total_records' = IncTotal(hit)
  /\ IF hit
     THEN /\ cluster_map' =
               [cluster_map EXCEPT ![seq_hash].size = cluster_map[seq_hash].size + 1]
          /\ cluster_csv_writer' =
               IF cluster_csv_writer = None THEN None
               ELSE Some(WriteRow(cluster_csv_writer[1],
                                  HitRow(cluster_map'[seq_hash], id), wok))
     ELSE /\ cluster_csv_writer' =
               IF cluster_csv_writer = None THEN None
               ELSE Some(WriteRow(cluster_csv_writer[1], MissRow(id), wok))
          /\ cluster_map' =
               IF cluster_csv_writer # None /\ ~wok THEN cluster_map
               ELSE [h \in DOMAIN cluster_map \cup {seq_hash} |->
                       IF h = seq_hash THEN NewCluster(id) ELSE cluster_map[h]]
  /\ calls' = Append(calls, [record |-> record, id |-> id, hash |-> seq_hash,
                             ret |-> InsertResult(hit, wok)])

\* faulty variant of insert_record: the record is counted after the row write,
\* and only when the write succeeded
insert_record_count_last(seq_hash, id, wok, record) ==
  LET hit == seq_hash \in DOMAIN cluster_map IN
  /\ total_records' =
       IF cluster_csv_writer # None /\ ~wok THEN total_records ELSE IncTotal(hit)
  /\ IF hit
     THEN /\ cluster_map' =
               [cluster_map EXCEPT ![seq_hash].size = cluster_map[seq_hash].size + 1]
          /\ cluster_csv_writer' =
               IF cluster_csv_writer = None THEN None
               ELSE Some(WriteRow(cluster_csv_writer[1],
                                  HitRow(cluster_map'[seq_hash], id), wok))
     ELSE /\ cluster_csv_writer' =
               IF cluster_csv_writer = None THEN None
               ELSE Some(WriteRow(cluster_csv_writer[1], MissRow(id), wok))
          /\ cluster_map' =
               [h \in DOMAIN cluster_map \cup {seq_hash} |->
                  IF h = seq_hash THEN NewCluster(id) ELSE cluster_map[h]]
  /\ calls' = Append(calls, [record |-> record, id |-> id, hash |-> seq_hash,
                             ret |-> InsertResult(hit, wok)])

\* faulty variant of insert_record: a hit makes the inserted record the
\* representative of its cluster
insert_record_last_seen(seq_hash, id, wok, record) ==
  LET hit == seq_hash \in DOMAIN cluster_map IN
  /\ total_records' = IncTotal(hit)
  /\ IF hit
     THEN /\ cluster_map' =
               [cluster_map EXCEPT ![seq_hash] =
                  [id |-> id, size |-> cluster_map[seq_hash].size + 1]]
          /\ cluster_csv_writer' =
               IF cluster_csv_writer = None THEN None
               ELSE Some(WriteRow(cluster_csv_writer[1],
                                  HitRow(cluster_map[seq_hash], id), wok))
     ELSE /\ cluster_csv_writer' =
               IF cluster_csv_writer = None THEN None
               ELSE Some(WriteRow(cluster_csv_writer[1], MissRow(id), wok))
          /\ cluster_map' =
               [h \in DOMAIN cluster_map \cup {seq_hash} |->
                  IF h = seq_hash THEN NewCluster(id) ELSE cluster_map[h]]
  /\ calls' = Append(calls, [record |-> record, id |-> id, hash |-> seq_hash,
                             ret |-> InsertResult(hit, wok)])

\* Clusters::insert_record; wok: whether the row write (if any) succeeds
insert_record(seq_hash, id, wok, record) ==
  LET hit == seq_hash \in DOMAIN cluster_map IN
  /\ total_records' = IncTotal(hit)
  /\ IF hit
     THEN /\ cluster_map' =
               [cluster_map EXCEPT ![seq_hash].size = cluster_map[seq_hash].size + 1]
          /\ cluster_csv_writer' =
               IF cluster_csv_writer = None THEN None
               ELSE Some(WriteRow(cluster_csv_writer[1],
                                  HitRow(cluster_map'[seq_hash], id), wok))
     ELSE /\ cluster_csv_writer' =
               IF cluster_csv_writer = None THEN None
               ELSE Some(WriteRow(cluster_csv_writer[1], MissRow(id), wok))
          /\ cluster_map' =
               [h \in DOMAIN cluster_map \cup {seq_hash} |->
                  IF h = seq_hash THEN NewCluster(id) ELSE cluster_map[h]]
  /\ calls' = Append(calls, [record |-> record, id |-> id, hash |-> seq_hash,
                             ret |-> InsertResult(hit, wok)])

insert_single ==
  /\ mode = "single"
  /\ total_records < MaxInserts
  /\ \E record \in RecordSet, wok \in BOOLEAN :
       /\ cluster_csv_writer = None => wok
       /\ insert_record(finish(SingleStream(record)), record.id, wok, record)
  /\ UNCHANGED << mode, prefix_length_opt >>
  /\ UNCHANGED syncVars
  /\ UNCHANGED reportVars
  /\ UNCHANGED first_run
  /\ UNCHANGED runVars

insert_pair ==
  /\ mode = "paired"
  /\ total_records < MaxPairs
  /\ \E id \in Ids, s1 \in SeqSet, s2 \in SeqSet, wok \in BOOLEAN :
       LET record == PairedRecord(Record(id, s1), Record(id, s2)) IN
       /\ cluster_csv_writer = None => wok
       /\ insert_record(finish(PairStream(record)), PairedId(record), wok, record)
  /\ UNCHANGED << mode, prefix_length_opt >>
  /\ UNCHANGED syncVars
  /\ UNCHANGED reportVars
  /\ UNCHANGED first_run
  /\ UNCHANGED runVars

\* Clusters::unique_records, duplicate_records
unique_records == Cardinality(DOMAIN cluster_map)
duplicate_records == total_records - unique_records

Header == << "representative read id", "read id" >>

\* the synchronizer before it is used
SyncIdle ==
  /\ records_r1 = << >>
  /\ records_r2 = << >>
  /\ pulled = << None, None >>
  /\ item = None
  /\ steps = 0
  /\ pulls = << 0, 0 >>
  /\ inputs = << << >>, << >> >>

\* Clusters::from_writer
from_writer ==
  /\ mode \in {"single", "paired"}
  /\ prefix_length_opt \in {None} \cup {Some(n) : n \in 0..MaxLen}
  /\ cluster_map = << >>
  /\ cluster_csv_writer \in {None, Some(<< Header >>)}
  /\ total_records = 0
  /\ calls = << >>

\* run_dedup before it is called
RunIdle ==
  /\ pc = "idle"
  /\ input_bytes = << >>
  /\ n_outputs = 0
  /\ writer_r1 = None
  /\ writer_r2 = None
  /\ result = None

\* the size report before write_sizes is called
ReportIdle ==
  /\ cluster_sizes_writer = None
  /\ sizes_ret = None

Init == from_writer /\ SyncIdle /\ ReportIdle /\ first_run = None /\ RunIdle
Next == insert_single \/ insert_pair
Spec == Init /\ [][Next]_vars

(***************************************************************************)
(* The cluster size report.                                                *)
(***************************************************************************)
\* u64::to_string: the decimal digits of n
Digits == << "0", "1", "2", "3", "4", "5", "6", "7", "8", "9" >>

RECURSIVE to_string(_)
to_string(n) ==
  IF n < 10 THEN Digits[n + 1]
  ELSE to_string(n \div 10) \o Digits[(n % 10) + 1]

SizesHeader == << "representative read id", "cluster size" >>

\* faulty variant of SizeRow: the size column is the cluster's size less one
SizeRowDuplicates(cluster) == << cluster.id, to_string(cluster.size - 1) >>

\* the row write_sizes writes for one cluster
SizeRow(cluster) == << cluster.id, to_string(cluster.size) >>

\* the orders in which HashMap::values can yield the clusters of the map
ValuesOrders ==
  LET n == Cardinality(DOMAIN cluster_map)
  IN {f \in [1..n -> DOMAIN cluster_map] : \A i, j \in 1..n : f[i] = f[j] => i = j}

\* Clusters::write_sizes, called once, after the last insert; written: how many
\* of the write_record calls succeed before one fails (all, when it is the
\* number of clusters plus one)
write_sizes ==
  /\ sizes_ret = None
  /\ \E order \in ValuesOrders, written \in 0..(unique_records + 1) :
       LET records == << SizesHeader >> \o
                        [i \in 1..unique_records |-> SizeRow(cluster_map[order[i]])]
       IN /\ cluster_sizes_writer' = Some(SubSeq(records, 1, written))
          /\ sizes_ret' = Some(IF written = Len(records) THEN Ok(<< >>) ELSE CsvError)
  /\ UNCHANGED storeVars
  /\ UNCHANGED syncVars
  /\ UNCHANGED first_run
  /\ UNCHANGED runVars

NextSizes == (sizes_ret = None /\ (insert_single \/ insert_pair)) \/ write_sizes
SpecSizes == Init /\ [][NextSizes]_vars

(***************************************************************************)
(* Two runs of the store on the same calls.                                *)
(***************************************************************************)
\* what a run leaves behind: its calls with their results, and its final store
RunOutcome ==
  [calls |-> calls,
   cluster_map |-> cluster_map,
   cluster_csv_writer |-> cluster_csv_writer,
   total_records |-> total_records,
   unique_records |-> unique_records,
   duplicate_records |-> duplicate_records]

\* the first run ends and a second store is made by Clusters::from_writer with
\* the same prefix length, with or without a row sink
second_run ==
  /\ first_run = None
  /\ calls # << >>
  /\ first_run' = Some(RunOutcome)
  /\ cluster_map' = << >>
  /\ cluster_csv_writer' \in {None, Some(<< Header >>)}
  /\ total_records' = 0
  /\ calls' = << >>
  /\ UNCHANGED << mode, prefix_length_opt >>
  /\ UNCHANGED syncVars
  /\ UNCHANGED reportVars
  /\ UNCHANGED runVars

\* the second run makes the calls of the first, in the same order:
\* insert_single or insert_pair on the record the first run inserted
same_call ==
  /\ first_run # None
  /\ Len(calls) < Len(first_run[1].calls)
  /\ \E wok \in BOOLEAN :
       LET record == first_run[1].calls[Len(calls) + 1].record IN
       /\ cluster_csv_writer = None => wok
       /\ IF mode = "single"
          THEN insert_record(finish(SingleStream(record)), record.id, wok, record)
          ELSE insert_record(finish(PairStream(record)), PairedId(record), wok, record)
  /\ UNCHANGED << mode, prefix_length_opt >>
  /\ UNCHANGED syncVars
  /\ UNCHANGED reportVars
  /\ UNCHANGED first_run
  /\ UNCHANGED runVars

NextRerun ==
  \/ first_run = None /\ (insert_single \/ insert_pair)
  \/ second_run
  \/ same_call
SpecRerun == Init /\ [][NextRerun]_vars

(***************************************************************************)
(* The paired record synchronizer.                                         *)
(***************************************************************************)
\* faulty variant of try_from: the identifiers are not compared
try_from_unchecked(r1, r2) == Ok(PairedRecord(r1, r2))

\* TryFrom<(T, T)> for PairedRecord
try_from(r1, r2) ==
  IF r1.id = r2.id
  THEN Ok(PairedRecord(r1, r2))
  ELSE Err("InvalidData",
           "read pair had different read IDs: (" \o r1.id \o ", " \o r2.id \o ")")

IsSomeOk(e) == e # None /\ e[1].tag = "Ok"
IsSomeErr(e) == e # None /\ e[1].tag = "Err"

\* faulty variant of NextResult: the two end-of-stream messages are exchanged
NextResultEofSwapped(e1, e2) ==
  IF IsSomeOk(e1) /\ IsSomeOk(e2) THEN Some(try_from(e1[1].val, e2[1].val))
  ELSE IF e1 = None /\ e2 = None THEN None
  ELSE IF e1 # None /\ e2 = None
    THEN Some(Err("UnexpectedEof", "reached the end of r1 before r2"))
  ELSE IF e1 = None /\ e2 # None
    THEN Some(Err("UnexpectedEof", "reached the end of r2 before r1"))
  ELSE IF IsSomeErr(e1) THEN e1
  ELSE e2

\* faulty variant of NextResult: the error arms are tried in the other order
NextResultR2First(e1, e2) ==
  IF IsSomeOk(e1) /\ IsSomeOk(e2) THEN Some(try_from(e1[1].val, e2[1].val))
  ELSE IF e1 = None /\ e2 = None THEN None
  ELSE IF e1 # None /\ e2 = None
    THEN Some(Err("UnexpectedEof", "reached the end of r2 before r1"))
  ELSE IF e1 = None /\ e2 # None
    THEN Some(Err("UnexpectedEof", "reached the end of r1 before r2"))
  ELSE IF IsSomeErr(e2) THEN e2
  ELSE e1

\* faulty variant of NextResult: an error of r2 ends the sequence silently
NextResultR2ErrorEnds(e1, e2) ==
  IF IsSomeOk(e1) /\ IsSomeOk(e2) THEN Some(try_from(e1[1].val, e2[1].val))
  ELSE IF e1 = None /\ e2 = None THEN None
  ELSE IF e1 # None /\ e2 = None
    THEN Some(Err("UnexpectedEof", "reached the end of r2 before r1"))
  ELSE IF e1 = None /\ e2 # None
    THEN Some(Err("UnexpectedEof", "reached the end of r1 before r2"))
  ELSE IF IsSomeErr(e1) THEN e1
  ELSE None

\* faulty variant of NextResult: the sequence ends as soon as either side ends
NextResultEitherEnds(e1, e2) ==
  IF IsSomeOk(e1) /\ IsSomeOk(e2) THEN Some(try_from(e1[1].val, e2[1].val))
  ELSE IF e1 = None \/ e2 = None THEN None
  ELSE IF IsSomeErr(e1) THEN e1
  ELSE e2

\* faulty variant of NextResult: two ended sides are reported as an error
NextResultNeverEnds(e1, e2) ==
  IF IsSomeOk(e1) /\ IsSomeOk(e2) THEN Some(try_from(e1[1].val, e2[1].val))
  ELSE IF e1 # None /\ e2 = None
    THEN Some(Err("UnexpectedEof", "reached the end of r2 before r1"))
  ELSE IF e2 # None /\ e1 = None
    THEN Some(Err("UnexpectedEof", "reached the end of r1 before r2"))
  ELSE IF e1 = None /\ e2 = None
    THEN Some(Err("UnexpectedEof", "reached the end of r1 before r2"))
  ELSE IF IsSomeErr(e1) THEN e1
  ELSE e2

\* the match of PairedRecords::next on what the two sides yielded
NextResult(e1, e2) ==
  IF IsSomeOk(e1) /\ IsSomeOk(e2) THEN Some(try_from(e1[1].val, e2[1].val))
  ELSE IF e1 = None /\ e2 = None THEN None
  ELSE IF e1 # None /\ e2 = None
    THEN Some(Err("UnexpectedEof", "reached the end of r2 before r1"))
  ELSE IF e1 = None /\ e2 # None
    THEN Some(Err("UnexpectedEof", "reached the end of r1 before r2"))
  ELSE IF IsSomeErr(e1) THEN e1
  ELSE e2

\* faulty variant of IterRest: a pull drops the element behind the one yielded
IterRestSkip(records) ==
  IF Len(records) <= 1 THEN << >> ELSE Tail(Tail(records))

\* Iterator::next of an underlying stream: the element yielded, the rest
IterNext(records) == IF records = << >> THEN None ELSE Some(Head(records))
IterRest(records) == IF records = << >> THEN << >> ELSE Tail(records)

\* faulty variant of records_next: after a pair with different identifiers the
\* next element of r2 is dropped to realign the two sides
records_next_resync ==
  LET mismatch == IsSomeErr(item) /\ item[1].kind = "InvalidData"
      r2 == IF mismatch THEN IterRest(records_r2) ELSE records_r2
  IN /\ pulled' = << IterNext(records_r1), IterNext(r2) >>
     /\ records_r1' = IterRest(records_r1)
     /\ records_r2' = IterRest(r2)
     /\ item' = NextResult(IterNext(records_r1), IterNext(r2))
     /\ steps' = steps + 1
     /\ pulls' = << pulls[1] + 1, pulls[2] + 1 >>
     /\ UNCHANGED inputs

\* the body of PairedRecords::next: both sides are pulled, then matched
records_next ==
  /\ pulled' = << IterNext(records_r1), IterNext(records_r2) >>
  /\ records_r1' = IterRest(records_r1)
  /\ records_r2' = IterRest(records_r2)
  /\ item' = NextResult(IterNext(records_r1), IterNext(records_r2))
  /\ steps' = steps + 1
  /\ pulls' = << pulls[1] + 1, pulls[2] + 1 >>
  /\ UNCHANGED inputs

\* PairedRecords::next
next ==
  /\ steps < MaxStream + 2
  /\ records_next
  /\ UNCHANGED storeVars
  /\ UNCHANGED reportVars
  /\ UNCHANGED first_run
  /\ UNCHANGED runVars

\* the records and read errors an underlying stream can yield
SyncRecords == {Record(id, seq) : id \in Ids, seq \in {<< >>, << 65 >>}}
ReadErrors == {Err("Other", "I'm broken"), Err("Other", "I'm also broken")}
StreamItems == {Ok(r) : r \in SyncRecords} \cup ReadErrors

RECURSIVE StreamsUpTo(_)
StreamsUpTo(n) ==
  IF n = 0 THEN {<< >>}
  ELSE LET shorter == StreamsUpTo(n - 1)
       IN shorter \cup {Append(s, e) : s \in {t \in shorter : Len(t) = n - 1},
                                       e \in StreamItems}

\* the store before it is used
StoreIdle ==
  /\ mode = "paired"
  /\ prefix_length_opt = None
  /\ cluster_map = << >>
  /\ cluster_csv_writer = None
  /\ total_records = 0
  /\ calls = << >>

\* PairedRecords::new
new ==
  /\ records_r1 \in StreamsUpTo(MaxStream)
  /\ records_r2 \in StreamsUpTo(MaxStream)
  /\ pulled = << None, None >>
  /\ item = None
  /\ steps = 0
  /\ pulls = << 0, 0 >>
  /\ inputs = << records_r1, records_r2 >>

InitSync == StoreIdle /\ new /\ ReportIdle /\ first_run = None /\ RunIdle
NextSync == next
SpecSync == InitSync /\ [][NextSync]_vars

\* the synchronizer under a caller that keeps calling next
SpecSyncLive == InitSync /\ [][NextSync]_vars /\ WF_vars(next)

(***************************************************************************)
(* run_dedup and its two loops (src/src/main.rs).                          *)
(***************************************************************************)
\* the first byte an input file can have: '>', '@', or another one
FirstBytes == {62, 64, 65}

\* fastx::fastx_type, from the first byte of the file
fastx_type(byte) ==
  IF byte = 62 THEN "Fasta" ELSE IF byte = 64 THEN "Fastq" ELSE "Invalid"

\* Display for FastxType
fmt(type) ==
  IF type = "Fasta" THEN "fasta" ELSE IF type = "Fastq" THEN "fastq" ELSE "invalid"

\* simple_error::simple_error!(message), boxed
SimpleError(message) == Err("SimpleError", message)

\* faulty variant of MismatchMessage: the two types are named in the other order
MismatchMessageSwapped(fastx_type_r1, fastx_type_r2) ==
  "paired inputs have different file types r1: " \o fmt(fastx_type_r2)
    \o ", r2: " \o fmt(fastx_type_r1)

\* the message of dedup! for inputs of different types
MismatchMessage(fastx_type_r1, fastx_type_r2) ==
  "paired inputs have different file types r1: " \o fmt(fastx_type_r1)
    \o ", r2: " \o fmt(fastx_type_r2)

\* what Record::check returns for a record: Ok(()) or a message
CheckResults == {Ok(<< >>), [tag |-> "Err", msg |-> "Non-ascii character found in sequence."]}

\* the records and read errors an input of run_dedup can yield
RunRecords ==
  {[id |-> id, seq |-> seq, check |-> c] :
     id \in Ids, seq \in {<< >>, << 65 >>}, c \in CheckResults}
RunItems == {Ok(r) : r \in RunRecords} \cup {Err("Other", "I'm broken")}

RECURSIVE RunStreamsUpTo(_)
RunStreamsUpTo(n) ==
  IF n = 0 THEN {<< >>}
  ELSE LET shorter == RunStreamsUpTo(n - 1)
       IN shorter \cup {Append(t, e) : t \in {u \in shorter : Len(u) = n - 1},
                                       e \in RunItems}

\* faulty variant of check: r2 is checked before r1
check_r2_first(record) ==
  IF record.r2.check.tag = "Err"
  THEN [tag |-> "Err", msg |-> "r2: " \o record.r2.check.msg]
  ELSE IF record.r1.check.tag = "Err"
  THEN [tag |-> "Err", msg |-> "r1: " \o record.r1.check.msg]
  ELSE Ok(<< >>)

\* PairedRecord::check
check(record) ==
  IF record.r1.check.tag = "Err"
  THEN [tag |-> "Err", msg |-> "r1: " \o record.r1.check.msg]
  ELSE IF record.r2.check.tag = "Err"
  THEN [tag |-> "Err", msg |-> "r2: " \o record.r2.check.msg]
  ELSE Ok(<< >>)

\* faulty variant of write_record: the output is started over at each write
write_record_truncating(writer, record, ook) ==
  IF ook THEN Some(<< record >>) ELSE writer

\* fastx::Writer::write_record on an output; ook: whether the write succeeds
write_record(writer, record, ook) ==
  IF ook THEN Some(Append(writer[1], record)) ELSE writer

OutputError == Err("Io", "output write failed")

\* faulty variant of Bail: the error is kept but the loop goes on
BailContinue(err) ==
  /\ pc' = "loop"
  /\ result' = Some(err)

\* box_bail! on an Err: the function returns the boxed error
Bail(err) ==
  /\ pc' = "done"
  /\ result' = Some(err)

\* run_dedup up to the loop: fastx_type of the first input, then dedup!
run_dedup ==
  /\ pc = "start"
  /\ UNCHANGED storeVars
  /\ UNCHANGED << pulled, item, steps, pulls >>
  /\ UNCHANGED reportVars
  /\ UNCHANGED first_run
  /\ UNCHANGED << input_bytes, n_outputs >>
  /\ LET fastx_type_r1 == fastx_type(input_bytes[1]) IN
     IF fastx_type_r1 = "Invalid"
     THEN /\ Bail(SimpleError("input file is not a valid FASTA or FASTQ file"))
          /\ UNCHANGED << records_r1, records_r2, inputs, writer_r1, writer_r2 >>
     ELSE /\ records_r1' \in RunStreamsUpTo(MaxStream)
          /\ writer_r1' = Some(<< >>)
          /\ IF Len(input_bytes) = 2 /\ n_outputs = 2
             THEN LET fastx_type_r2 == fastx_type(input_bytes[2]) IN
                  IF fastx_type_r2 # fastx_type_r1
                  THEN /\ Bail(SimpleError(MismatchMessage(fastx_type_r1, fastx_type_r2)))
                       /\ records_r2' = << >>
                       /\ writer_r2' = None
                  ELSE /\ records_r2' \in RunStreamsUpTo(MaxStream)
                       /\ writer_r2' = Some(<< >>)
                       /\ pc' = "loop"
                       /\ result' = None
             ELSE IF Len(input_bytes) = 1 /\ n_outputs = 1
             THEN /\ records_r2' = << >>
                  /\ writer_r2' = None
                  /\ pc' = "loop"
                  /\ result' = None
             ELSE /\ records_r2' = << >>
                  /\ writer_r2' = None
                  /\ pc' = "done"
                  /\ result' = Some([tag |-> "Panic",
                                     msg |-> "must have the same number of inputs and outputs"])
          /\ inputs' = << records_r1', records_r2' >>

\* one iteration of the for loop of single
single ==
  /\ pc = "loop"
  /\ mode = "single"
  /\ records_r1' = IterRest(records_r1)
  /\ pulls' = << pulls[1] + 1, pulls[2] >>
  /\ UNCHANGED << records_r2, pulled, item, steps, inputs >>
  /\ UNCHANGED << mode, prefix_length_opt >>
  /\ UNCHANGED reportVars
  /\ UNCHANGED first_run
  /\ UNCHANGED << input_bytes, n_outputs, writer_r2 >>
  /\ LET e == IterNext(records_r1) IN
     IF e = None
     THEN /\ pc' = "report"
          /\ UNCHANGED result
          /\ UNCHANGED << cluster_map, cluster_csv_writer, total_records, calls, writer_r1 >>
     ELSE IF e[1].tag = "Err"
     THEN /\ Bail(e[1])
          /\ UNCHANGED << cluster_map, cluster_csv_writer, total_records, calls, writer_r1 >>
     ELSE IF e[1].val.check.tag = "Err"
     THEN /\ Bail(SimpleError(e[1].val.check.msg))
          /\ UNCHANGED << cluster_map, cluster_csv_writer, total_records, calls, writer_r1 >>
     ELSE \E wok \in BOOLEAN, ook \in BOOLEAN :
            LET record == e[1].val IN
            /\ cluster_csv_writer = None => wok
            /\ insert_record(finish(SingleStream(record)), record.id, wok, record)
            /\ LET ret == calls'[Len(calls')].ret IN
               IF ret.tag = "Err"
               THEN /\ Bail(ret)
                    /\ UNCHANGED writer_r1
               ELSE IF ret.val
               THEN /\ writer_r1' = write_record(writer_r1, record, ook)
                    /\ IF ook THEN UNCHANGED << pc, result >> ELSE Bail(OutputError)
               ELSE /\ UNCHANGED writer_r1
                    /\ UNCHANGED << pc, result >>

\* one iteration of the for loop of pair
pair ==
  /\ pc = "loop"
  /\ mode = "paired"
  /\ records_next
  /\ UNCHANGED << mode, prefix_length_opt >>
  /\ UNCHANGED reportVars
  /\ UNCHANGED first_run
  /\ UNCHANGED << input_bytes, n_outputs >>
  /\ IF item' = None
     THEN /\ pc' = "report"
          /\ UNCHANGED result
          /\ UNCHANGED << cluster_map, cluster_csv_writer, total_records, calls >>
          /\ UNCHANGED << writer_r1, writer_r2 >>
     ELSE IF item'[1].tag = "Err"
     THEN /\ Bail(item'[1])
          /\ UNCHANGED << cluster_map, cluster_csv_writer, total_records, calls >>
          /\ UNCHANGED << writer_r1, writer_r2 >>
     ELSE IF check(item'[1].val).tag = "Err"
     THEN /\ Bail(SimpleError(check(item'[1].val).msg))
          /\ UNCHANGED << cluster_map, cluster_csv_writer, total_records, calls >>
          /\ UNCHANGED << writer_r1, writer_r2 >>
     ELSE \E wok \in BOOLEAN, ook_r1 \in BOOLEAN, ook_r2 \in BOOLEAN :
            LET record == item'[1].val IN
            /\ cluster_csv_writer = None => wok
            /\ insert_record(finish(PairStream(record)), PairedId(record), wok, record)
            /\ LET ret == calls'[Len(calls')].ret IN
               IF ret.tag = "Err"
               THEN /\ Bail(ret)
                    /\ UNCHANGED << writer_r1, writer_r2 >>
               ELSE IF ret.val
               THEN /\ writer_r1' = write_record(writer_r1, record.r1, ook_r1)
                    /\ IF ook_r1
                       THEN /\ writer_r2' = write_record(writer_r2, record.r2, ook_r2)
                            /\ IF ook_r2 THEN UNCHANGED << pc, result >>
                               ELSE Bail(OutputError)
                       ELSE /\ UNCHANGED writer_r2
                            /\ Bail(OutputError)
               ELSE /\ UNCHANGED << writer_r1, writer_r2 >>
                    /\ UNCHANGED << pc, result >>

\* the three counters main prints from the store run_dedup returned
Counters ==
  [total_records |-> total_records,
   unique_records |-> unique_records,
   duplicate_records |-> duplicate_records]

\* run_dedup after the loop: the result of write_sizes if it was asked for and
\* failed, the store otherwise
run_dedup_end ==
  /\ pc = "report"
  /\ pc' = "done"
  /\ result' = IF sizes_ret = Some(CsvError) THEN Some(CsvError) ELSE Some(Ok(Counters))
  /\ UNCHANGED storeVars
  /\ UNCHANGED syncVars
  /\ UNCHANGED reportVars
  /\ UNCHANGED first_run
  /\ UNCHANGED << input_bytes, n_outputs, writer_r1, writer_r2 >>

\* the arguments of run_dedup: one or two inputs, one or two outputs, and the
\* store made by Clusters::from_file
InitRun ==
  /\ from_writer
  /\ SyncIdle
  /\ ReportIdle
  /\ first_run = None
  /\ pc = "start"
  /\ input_bytes \in {<< b >> : b \in FirstBytes}
                     \cup {<< b1, b2 >> : b1 \in FirstBytes, b2 \in FirstBytes}
  /\ n_outputs \in 1..2
  /\ mode = (IF Len(input_bytes) = 2 THEN "paired" ELSE "single")
  /\ writer_r1 = None
  /\ writer_r2 = None
  /\ result = None

NextRun ==
  \/ run_dedup
  \/ single
  \/ pair
  \/ pc = "report" /\ write_sizes
  \/ run_dedup_end
SpecRun == InitRun /\ [][NextRun]_vars

(***************************************************************************)
(* Properties of the cluster store.                                        *)
(***************************************************************************)
\* the calls made so far, the last of them
CallIds == 1..Len(calls)
LastCall == calls[Len(calls)]
\* the first call that used the fingerprint of call i
FirstWith(i) == CHOOSE j \in 1..i :
  /\ calls[j].hash = calls[i].hash
  /\ \A k \in 1..(j - 1) : calls[k].hash # calls[i].hash
\* the rows of the sink, and the row written by call i when no earlier write failed
Rows == cluster_csv_writer[1]
AllWritesOk == \A i \in CallIds : calls[i].ret.tag = "Ok"

\* C1: the counters agree in every state, also after a call that returned a
\* row-sink error: total_count is the number of insert calls made so far,
\* unique_count never exceeds it, and total_count = unique_count + duplicate_count.
C1_CounterIdentity ==
  /\ total_records = Len(calls)
  /\ unique_records <= total_records
  /\ duplicate_records >= 0
  /\ total_records = unique_records + duplicate_records

C1_Witness ==
  /\ Len(calls) = 3
  /\ \E i \in CallIds : calls[i].ret.tag = "Err"
  /\ unique_records = 2
  /\ duplicate_records = 1

\* C2: an insert that does not return a sink error returns true exactly when no
\* earlier insert used the same fingerprint, and false exactly when one did; a
\* miss leaves a cluster of size 1 whose representative is the inserted record.
C2_NewClusterSignal ==
  /\ \A i \in CallIds :
        calls[i].ret.tag = "Ok" =>
          (calls[i].ret.val = TRUE <=>
             ~ \E j \in 1..(i - 1) : calls[j].hash = calls[i].hash)
  /\ (calls # << >> /\ LastCall.ret = Ok(TRUE)) =>
        /\ LastCall.hash \in DOMAIN cluster_map
        /\ cluster_map[LastCall.hash] = [id |-> LastCall.id, size |-> 1]

C2_Witness ==
  /\ Len(calls) = 3
  /\ calls[1].ret = Ok(TRUE)
  /\ calls[2].ret = Ok(TRUE)
  /\ calls[3].ret = Ok(FALSE)
  /\ calls[3].hash = calls[1].hash

\* C3: in the single-end store, when record A is the first with some prefixed
\* sequence content and record B with the same content is inserted later, the
\* row written for B is (A.id, B.id) and the representative of their cluster
\* is A's identifier.
C3_FirstSeenRepresentative ==
  mode = "single" =>
    \A a \in CallIds, b \in CallIds :
      ( /\ a < b
        /\ get_prefix(calls[a].record.seq) = get_prefix(calls[b].record.seq)
        /\ \A k \in 1..(a - 1) :
             get_prefix(calls[k].record.seq) # get_prefix(calls[a].record.seq) )
      => /\ calls[b].hash \in DOMAIN cluster_map
         /\ cluster_map[calls[b].hash].id = calls[a].record.id
         /\ (cluster_csv_writer # None /\ AllWritesOk) =>
               Rows[b + 1] = << calls[a].record.id, calls[b].record.id >>

C3_Witness ==
  /\ mode = "single"
  /\ cluster_csv_writer # None
  /\ AllWritesOk
  /\ Len(calls) = 3
  /\ get_prefix(calls[1].record.seq) = get_prefix(calls[3].record.seq)
  /\ get_prefix(calls[1].record.seq) # get_prefix(calls[2].record.seq)
  /\ calls[1].record.id = "id_a"
  /\ calls[3].record.id = "id_b"
  /\ Rows[4] = << "id_a", "id_b" >>

\* C4: with a row sink and no failed write, after n inserts the sink holds the
\* header and then exactly n rows, the i-th being (representative of the
\* cluster the i-th record joined, identifier of the i-th record).
C4_RowSinkOrdering ==
  (cluster_csv_writer # None /\ AllWritesOk) =>
    /\ Len(Rows) = Len(calls) + 1
    /\ Rows[1] = << "representative read id", "read id" >>
    /\ \A i \in CallIds :
          Rows[i + 1] = << calls[FirstWith(i)].id, calls[i].id >>

C4_Witness ==
  /\ cluster_csv_writer # None
  /\ AllWritesOk
  /\ Len(calls) = 3
  /\ Rows = << Header, << "id_b", "id_b" >>, << "id_a", "id_a" >>, << "id_b", "id_a" >> >>

\* s and t have the same first p bytes
SameFirstBytes(s, t, p) ==
  /\ Len(s) >= p
  /\ Len(t) >= p
  /\ \A k \in 1..p : s[k] = t[k]

\* C5: with prefix length P, a record whose first P bytes equal those of an
\* earlier record but whose sequence differs from it beyond P is a duplicate
\* (its insert returns false); with no prefix length, two insert_single records
\* share a cluster only if their whole sequences are equal.
C5_PrefixTruncation ==
  mode = "single" =>
    \A i \in CallIds, j \in CallIds :
      i < j =>
        /\ ( /\ prefix_length_opt # None
             /\ calls[i].record.seq # calls[j].record.seq
             /\ SameFirstBytes(calls[i].record.seq, calls[j].record.seq,
                               prefix_length_opt[1])
             /\ calls[j].ret.tag = "Ok" )
           => calls[j].ret.val = FALSE
        /\ ( /\ prefix_length_opt = None
             /\ calls[i].hash = calls[j].hash )
           => calls[i].record.seq = calls[j].record.seq
        /\ ( /\ prefix_length_opt = None
             /\ calls[j].ret = Ok(FALSE) )
           => \E k \in 1..(j - 1) : calls[k].record.seq = calls[j].record.seq

C5_Witness ==
  /\ mode = "single"
  /\ prefix_length_opt = Some(1)
  /\ Len(calls) = 2
  /\ calls[1].record.seq = << 65, 0 >>
  /\ calls[2].record.seq = << 65, 65 >>
  /\ calls[2].ret = Ok(FALSE)
  /\ unique_records = 1

(***************************************************************************)
(* Properties of insert_pair.                                              *)
(***************************************************************************)
\* both members' prefixes of two pairs match positionally
SamePrefixes(a, b) ==
  /\ get_prefix(a.r1.seq) = get_prefix(b.r1.seq)
  /\ get_prefix(a.r2.seq) = get_prefix(b.r2.seq)

\* C6: two pairs give insert_pair the same fingerprint input, and so share a
\* cluster, if and only if both members' prefixes match positionally.
C6_PairFingerprintEquality ==
  mode = "paired" =>
    \A i \in CallIds, j \in CallIds :
      /\ PairStream(calls[i].record) = PairStream(calls[j].record)
           <=> SamePrefixes(calls[i].record, calls[j].record)
      /\ calls[i].hash = calls[j].hash
           <=> SamePrefixes(calls[i].record, calls[j].record)

\* C7: a pair (seqX, seqY) and the swapped pair (seqY, seqX) whose prefixes
\* differ are not duplicates: inserted into an empty store, both inserts return
\* true and unique_count is 2.
C7_PairOrderingSensitivity ==
  ( /\ mode = "paired"
    /\ Len(calls) = 2
    /\ AllWritesOk
    /\ calls[2].record.r1.seq = calls[1].record.r2.seq
    /\ calls[2].record.r2.seq = calls[1].record.r1.seq
    /\ get_prefix(calls[1].record.r1.seq) # get_prefix(calls[1].record.r2.seq) )
  => /\ unique_records = 2
     /\ calls[1].ret = Ok(TRUE)
     /\ calls[2].ret = Ok(TRUE)

(***************************************************************************)
(* Properties of the synchronizer.  pulled holds what the two underlying   *)
(* streams yielded in the last step, item what the step returned.          *)
(***************************************************************************)
Stepped == steps > 0
EofR2BeforeR1 == Err("UnexpectedEof", "reached the end of r2 before r1")
EofR1BeforeR2 == Err("UnexpectedEof", "reached the end of r1 before r2")

\* C8: when both sides yield an ok record, the step returns a validated pair
\* if the identifiers are equal and otherwise an InvalidData error naming the
\* identifiers in (r1, r2) order; every pair returned has r1.id = r2.id.
C8_SynchronizerPairing ==
  /\ (Stepped /\ IsSomeOk(pulled[1]) /\ IsSomeOk(pulled[2])) =>
        LET r1 == pulled[1][1].val
            r2 == pulled[2][1].val
        IN IF r1.id = r2.id
           THEN item = Some(Ok([r1 |-> r1, r2 |-> r2]))
           ELSE /\ item # None
                /\ item[1].tag = "Err"
                /\ item[1].kind = "InvalidData"
                /\ item[1].msg \in
                     { "read pair had different read IDs: (id_a, id_b)",
                       "read pair had different read IDs: (id_b, id_a)" }
                /\ r1.id = "id_a" <=>
                     item[1].msg = "read pair had different read IDs: (id_a, id_b)"
  /\ (item # None /\ item[1].tag = "Ok") =>
        /\ item[1].val.r1.id = item[1].val.r2.id
        /\ IsSomeOk(pulled[1])
        /\ IsSomeOk(pulled[2])

C8_Witness ==
  /\ Stepped
  /\ IsSomeOk(pulled[1])
  /\ IsSomeOk(pulled[2])
  /\ pulled[1][1].val.id = "id_a"
  /\ pulled[2][1].val.id = "id_b"
  /\ item = Some(Err("InvalidData", "read pair had different read IDs: (id_a, id_b)"))

\* C9: a step in which r1 yields a value and r2 is at its end returns the
\* UnexpectedEof error "reached the end of r2 before r1"; a step in which r1
\* is at its end and r2 yields a value returns the UnexpectedEof error
\* "reached the end of r1 before r2"; neither returns a pair.
C9_EndOfStreamMisalignment ==
  Stepped =>
    /\ (pulled[1] # None /\ pulled[2] = None) => item = Some(EofR2BeforeR1)
    /\ (pulled[1] = None /\ pulled[2] # None) => item = Some(EofR1BeforeR2)
    /\ (pulled[1] = None \/ pulled[2] = None) => ~ (item # None /\ item[1].tag = "Ok")

C9_Witness ==
  /\ steps = 2
  /\ IsSomeOk(pulled[1])
  /\ pulled[2] = None
  /\ item = Some(EofR2BeforeR1)

\* C10 as stated: whenever r1's next element is an error value, the step
\* returns r1's error, whatever r2 yields (ok, error or end).
C10_R1ErrorAlways ==
  (Stepped /\ IsSomeErr(pulled[1])) => item = pulled[1]

\* C10 amended: when r1's next element is an error value and r2 is not at its
\* end (it yields an ok value or an error value), the step returns r1's error
\* unchanged; when r2 is at its end the step returns the UnexpectedEof error
\* "reached the end of r2 before r1" and r1's error is dropped.
C10_R1ErrorPropagation ==
  (Stepped /\ IsSomeErr(pulled[1])) =>
    /\ pulled[2] # None => item = pulled[1]
    /\ pulled[2] = None => item = Some(EofR2BeforeR1)

C10_Witness ==
  /\ Stepped
  /\ IsSomeErr(pulled[1])
  /\ IsSomeErr(pulled[2])
  /\ pulled[1] # pulled[2]
  /\ item = pulled[1]

\* C11 as stated: whenever r2's next element is an error value and r1's is not
\* an error (an ok value or end), the step returns r2's error.
C11_R2ErrorAlways ==
  (Stepped /\ IsSomeErr(pulled[2]) /\ ~ IsSomeErr(pulled[1])) => item = pulled[2]

\* C11 amended: when r2's next element is an error value and r1 yields an ok
\* value, the step returns r2's error unchanged; when r1 is at its end the step
\* returns the UnexpectedEof error "reached the end of r1 before r2" and r2's
\* error is dropped.
C11_R2ErrorPropagation ==
  (Stepped /\ IsSomeErr(pulled[2])) =>
    /\ IsSomeOk(pulled[1]) => item = pulled[2]
    /\ pulled[1] = None => item = Some(EofR1BeforeR2)

C11_Witness ==
  /\ Stepped
  /\ IsSomeOk(pulled[1])
  /\ IsSomeErr(pulled[2])
  /\ item = Some(Err("Other", "I'm broken"))

\* C13: an insert whose row write fails returns the error and keeps its store
\* mutation: total_records grows by one, a hit cluster's size grows by one, a
\* miss leaves the new cluster in the map with size 1, every other cluster is
\* untouched, and the three counters stay consistent after the failed call.
C13_SinkFailureNotRolledBack ==
  [][ (calls' # calls /\ calls'[Len(calls')].ret.tag = "Err") =>
        LET call == calls'[Len(calls')] IN
        /\ call.ret = CsvError
        /\ total_records' = total_records + 1
        /\ call.hash \in DOMAIN cluster_map'
        /\ call.hash \in DOMAIN cluster_map =>
              cluster_map'[call.hash] =
                [id |-> cluster_map[call.hash].id,
                 size |-> cluster_map[call.hash].size + 1]
        /\ call.hash \notin DOMAIN cluster_map =>
              cluster_map'[call.hash] = [id |-> call.id, size |-> 1]
        /\ \A h \in DOMAIN cluster_map \ {call.hash} :
              h \in DOMAIN cluster_map' /\ cluster_map'[h] = cluster_map[h]
        /\ unique_records' = Cardinality({calls'[i].hash : i \in DOMAIN calls'})
        /\ total_records' = Len(calls')
        /\ duplicate_records' = total_records' - unique_records'
        /\ duplicate_records' >= 0 ]_vars

C13_Witness ==
  /\ Len(calls) = 2
  /\ calls[1].ret = CsvError
  /\ calls[2].ret = CsvError
  /\ calls[1].hash = calls[2].hash
  /\ cluster_map[calls[2].hash] = [id |-> calls[1].id, size |-> 2]
  /\ total_records = 2
  /\ unique_records = 1
  /\ duplicate_records = 1

\* the sum of the sizes of the clusters of a map
RECURSIVE SumSizes(_)
SumSizes(map) ==
  IF DOMAIN map = {} THEN 0
  ELSE LET h == CHOOSE x \in DOMAIN map : TRUE
       IN map[h].size + SumSizes([k \in DOMAIN map \ {h} |-> map[k]])

\* C16: in every reachable state of the store, unique_records is the number of
\* entries of cluster_map, one entry per fingerprint inserted so far, and
\* total_records is the sum of the sizes of all clusters.
C16_StoreAggregate ==
  /\ unique_records = Cardinality(DOMAIN cluster_map)
  /\ DOMAIN cluster_map = {calls[i].hash : i \in CallIds}
  /\ total_records = SumSizes(cluster_map)

C16_Witness ==
  /\ total_records = 3
  /\ unique_records = 2
  /\ \E h1 \in DOMAIN cluster_map, h2 \in DOMAIN cluster_map :
        cluster_map[h1].size = 2 /\ cluster_map[h2].size = 1

\* what the k-th next() call on an underlying stream yields
Nth(stream, k) == IF k <= Len(stream) THEN Some(stream[k]) ELSE None

\* what is left of an underlying stream after k next() calls
After(stream, k) == SubSeq(stream, Min(k, Len(stream)) + 1, Len(stream))

\* C19: every PairedRecords::next call pulls exactly one element from each
\* underlying stream, whatever the step yields: after k calls each side has been
\* pulled k times, the k-th call saw the k-th element of each side (or its end),
\* and each side holds exactly the elements behind its k-th, none dropped and
\* none held back.
C19_LockStep ==
  /\ pulls = << steps, steps >>
  /\ records_r1 = After(inputs[1], steps)
  /\ records_r2 = After(inputs[2], steps)
  /\ Stepped => pulled = << Nth(inputs[1], steps), Nth(inputs[2], steps) >>

C19_Witness ==
  /\ steps = 2
  /\ pulls = << 2, 2 >>
  /\ Len(inputs[1]) = 2
  /\ Len(inputs[2]) = 2
  /\ IsSomeErr(Nth(inputs[1], 1))
  /\ pulled = << Some(inputs[1][2]), Some(inputs[2][2]) >>
  /\ records_r1 = << >>
  /\ records_r2 = << >>

\* C20 as stated: once a step has found one side at its end, every later
\* PairedRecords::next call yields the end of the sequence.
C20_EndsWhenEitherEnds ==
  [][ (Stepped /\ steps' = steps + 1 /\ (pulled[1] = None \/ pulled[2] = None))
        => item' = None ]_vars

\* C20 amended: a side found at its end stays at its end and no later call
\* yields a pair; a later call yields the end of the sequence exactly when both
\* sides are at their end, and while the other side still yields elements it
\* yields the UnexpectedEof error of the side that ended again.
C20_EndsWhenBothEnd ==
  [][ (Stepped /\ steps' = steps + 1 /\ (pulled[1] = None \/ pulled[2] = None))
        => /\ pulled[1] = None => pulled'[1] = None
           /\ pulled[2] = None => pulled'[2] = None
           /\ ~ IsSomeOk(item')
           /\ item' = None <=> (pulled'[1] = None /\ pulled'[2] = None)
           /\ (pulled'[1] = None /\ pulled'[2] # None) => item' = Some(EofR1BeforeR2)
           /\ (pulled'[1] # None /\ pulled'[2] = None) => item' = Some(EofR2BeforeR1)
    ]_vars

C20_Witness ==
  /\ steps = 2
  /\ Len(inputs[1]) = 2
  /\ inputs[2] = << >>
  /\ pulled[1] # None
  /\ pulled[2] = None
  /\ item = Some(EofR2BeforeR1)

\* the number a decimal string of the size column stands for
ParseSize(str) == CHOOSE n \in 0..(MaxInserts + MaxPairs) : to_string(n) = str

\* the sum of the size column of a sequence of report rows
RECURSIVE SumSizeColumn(_)
SumSizeColumn(rows) ==
  IF rows = << >> THEN 0 ELSE ParseSize(Head(rows)[2]) + SumSizeColumn(Tail(rows))

\* C12: a write_sizes call that returns Ok has written the header
\* (representative read id, cluster size) followed by exactly one row
\* (representative id, size in decimal) per cluster of the store, in some order:
\* the number of rows is unique_records and the sizes in the rows add up to
\* total_records.
C12_WriteSizesContent ==
  sizes_ret = Some(Ok(<< >>)) =>
    LET written == cluster_sizes_writer[1]
        rows == Tail(written)
    IN /\ Head(written) = << "representative read id", "cluster size" >>
       /\ Len(rows) = unique_records
       /\ \E order \in ValuesOrders :
             \A i \in 1..Len(rows) :
               rows[i] = << cluster_map[order[i]].id,
                            to_string(cluster_map[order[i]].size) >>
       /\ SumSizeColumn(rows) = total_records

C12_Witness ==
  /\ sizes_ret = Some(Ok(<< >>))
  /\ mode = "single"
  /\ Len(calls) = 3
  /\ calls[1].record.seq = calls[2].record.seq
  /\ calls[1].hash # calls[3].hash
  /\ Len(cluster_sizes_writer[1]) = 3
  /\ {cluster_sizes_writer[1][2], cluster_sizes_writer[1][3]} =
        {<< calls[1].id, "2" >>, << calls[3].id, "1" >>}

(***************************************************************************)
(* Properties of two runs on the same calls.                               *)
(***************************************************************************)
\* the second run has made all the calls of the first
BothRunsDone == first_run # None /\ Len(calls) = Len(first_run[1].calls)

\* no row write of a run failed
RunWritesOk(run_calls) == \A i \in DOMAIN run_calls : run_calls[i].ret.tag = "Ok"

\* one of the two runs had no row sink, the other a row sink that never failed
SinkAbsentAndPresent ==
  /\ first_run # None
  /\ RunWritesOk(first_run[1].calls)
  /\ RunWritesOk(calls)
  /\ \/ first_run[1].cluster_csv_writer = None /\ cluster_csv_writer # None
     \/ first_run[1].cluster_csv_writer # None /\ cluster_csv_writer = None

\* the counters and the clusters of the two runs are the same
SameCounts ==
  /\ unique_records = first_run[1].unique_records
  /\ duplicate_records = first_run[1].duplicate_records
  /\ total_records = first_run[1].total_records

\* C14: on the same sequence of insert calls, a store without a row sink
\* returns the same boolean from each insert and ends with the same
\* unique_records, duplicate_records, total_records and cluster sizes as a
\* store with a row sink whose writes all succeed, and it writes no rows.
C14_AbsentSinkProjection ==
  SinkAbsentAndPresent =>
    /\ \A i \in CallIds : calls[i].ret = first_run[1].calls[i].ret
    /\ BothRunsDone =>
          /\ SameCounts
          /\ cluster_map = first_run[1].cluster_map
    /\ cluster_csv_writer = None \/ first_run[1].cluster_csv_writer = None

C14_Witness ==
  /\ SinkAbsentAndPresent
  /\ BothRunsDone
  /\ cluster_csv_writer = None
  /\ Len(first_run[1].cluster_csv_writer[1]) = 4
  /\ Len(calls) = 3
  /\ calls[1].ret = Ok(TRUE)
  /\ calls[2].ret = Ok(TRUE)
  /\ calls[3].ret = Ok(FALSE)
  /\ unique_records = 2
  /\ duplicate_records = 1

\* C15 as stated: two runs of the same sequence of insert calls with the same
\* prefix length end with the same unique_records, duplicate_records and
\* total_records, and each insert returns the same value in both.
C15_Determinism ==
  first_run # None =>
    /\ \A i \in CallIds : calls[i].ret = first_run[1].calls[i].ret
    /\ BothRunsDone => SameCounts

\* C15 amended: two runs of the same sequence of insert calls with the same
\* prefix length end with the same unique_records, duplicate_records and
\* total_records, whatever their row sinks do; an insert returns the same
\* boolean in both runs unless its row write fails in one of them, where it
\* returns the sink error.
C15_DeterminismOfCounts ==
  first_run # None =>
    /\ \A i \in CallIds :
          \/ calls[i].ret = first_run[1].calls[i].ret
          \/ calls[i].ret = CsvError
          \/ first_run[1].calls[i].ret = CsvError
    /\ BothRunsDone =>
          /\ SameCounts
          /\ cluster_map = first_run[1].cluster_map

C15_Witness ==
  /\ BothRunsDone
  /\ Len(calls) = 2
  /\ first_run[1].calls[2].ret = CsvError
  /\ calls[1].ret = Ok(TRUE)
  /\ calls[2].ret = Ok(FALSE)
  /\ SameCounts
  /\ duplicate_records = 1

(***************************************************************************)
(* Properties of run_dedup.                                                *)
(***************************************************************************)
\* run_dedup has returned an error
Failed == result # None /\ result[1].tag = "Err"

\* the errors of the row sink and of the deduped outputs
SinkOrOutputError == {CsvError, OutputError}

\* C17: in the loops of single and pair the first error ends the run. The step
\* that meets it returns that error and leaves the loop: a read, synchronizer
\* or self-check error before any insert or write of that iteration, a row-sink
\* error before any output write, a failed write of r1 before the write of r2;
\* it pulls each input at most once. After it nothing changes: no record is
\* pulled or inserted, no row, output record or size report is written, and
\* the result stays the error, never the counters.
C17_FirstErrorAborts ==
  [][ /\ Failed =>
           /\ UNCHANGED << storeVars, syncVars, reportVars, runVars >>
           /\ pc = "done"
      /\ (pc = "loop" /\ result' # None) =>
           /\ result'[1].tag = "Err"
           /\ pc' = "done"
           /\ cluster_sizes_writer' = None
           /\ pulls'[1] = pulls[1] + 1
           /\ pulls'[2] <= pulls[2] + 1
           /\ (mode = "single" /\ IsSomeErr(IterNext(records_r1))) =>
                 result' = IterNext(records_r1)
           /\ (mode = "paired" /\ IsSomeErr(item')) => result' = item'
           /\ result'[1] \notin SinkOrOutputError =>
                 /\ calls' = calls
                 /\ UNCHANGED << cluster_map, total_records, cluster_csv_writer >>
                 /\ UNCHANGED << writer_r1, writer_r2 >>
           /\ result'[1] = CsvError =>
                 /\ Len(calls') = Len(calls) + 1
                 /\ UNCHANGED << writer_r1, writer_r2 >>
           /\ result'[1] = OutputError =>
                 /\ Len(calls') = Len(calls) + 1
                 /\ UNCHANGED writer_r2
                 /\ writer_r1' # writer_r1 => mode = "paired"
    ]_vars

C17_Witness ==
  /\ Failed
  /\ pc = "done"
  /\ mode = "paired"
  /\ result[1] = OutputError
  /\ Len(calls) = 1
  /\ Len(writer_r1[1]) = 1
  /\ writer_r2 = Some(<< >>)
  /\ pulls = << 1, 1 >>
  /\ records_r1 # << >>
  /\ records_r2 # << >>
  /\ cluster_sizes_writer = None

\* the name of the format detected from a first byte
FormatName(byte) ==
  IF byte = 62 THEN "fasta" ELSE IF byte = 64 THEN "fastq" ELSE "invalid"

\* two inputs and two outputs, the first input fasta or fastq, the second not
\* of the same format
PairedTypeMismatch ==
  /\ Len(input_bytes) = 2
  /\ n_outputs = 2
  /\ input_bytes[1] \in {62, 64}
  /\ FormatName(input_bytes[2]) # FormatName(input_bytes[1])

\* C18: when run_dedup is given two inputs and two outputs and the format
\* detected from the first byte of the second input differs from that of the
\* first, it returns the error "paired inputs have different file types r1:
\* <type1>, r2: <type2>", and it does so before any record is read from either
\* input and before any insert.
C18_PairedTypeMismatch ==
  (PairedTypeMismatch /\ pc # "start") =>
    /\ pc = "done"
    /\ result = Some(Err("SimpleError",
                         "paired inputs have different file types r1: "
                           \o FormatName(input_bytes[1]) \o ", r2: "
                           \o FormatName(input_bytes[2])))
    /\ pulls = << 0, 0 >>
    /\ records_r1 = inputs[1]
    /\ records_r2 = inputs[2]
    /\ calls = << >>
    /\ total_records = 0
    /\ cluster_map = << >>

C18_Witness ==
  /\ pc = "done"
  /\ input_bytes = << 62, 64 >>
  /\ n_outputs = 2
  /\ result = Some(Err("SimpleError",
                       "paired inputs have different file types r1: fasta, r2: fastq"))
  /\ Len(records_r1) = 2
  /\ pulls = << 0, 0 >>
  /\ total_records = 0

\* the longer of two lengths
Max(a, b) == IF a < b THEN b ELSE a

\* C21: for two finite underlying streams of lengths m and n that stay at
\* their end once exhausted, a caller that keeps calling PairedRecords::next
\* eventually gets the end of the sequence, and gets it exactly from call
\* max(m, n) + 1 on, the first call that finds both sides at their end; with
\* two empty streams the first call already yields it.
C21_SynchronizerTermination ==
  /\ [](Stepped =>
         (item = None <=> steps > Max(Len(inputs[1]), Len(inputs[2]))))
  /\ <>(Stepped /\ item = None)

C21_Witness ==
  /\ Len(inputs[1]) = 2
  /\ Len(inputs[2]) = 1
  /\ steps = 3
  /\ pulled = << None, None >>
  /\ item = None

\* the last PairedRecords::next returned the error of a pair with different
\* identifiers
Mismatched == IsSomeErr(item) /\ item[1].kind = "InvalidData"

\* C22: when call k of PairedRecords::next returns the error of a pair with
\* different identifiers, call k + 1 pulls element k + 1 of r1 and element
\* k + 1 of r2 and judges that pair alone: two ok records with one identifier
\* make a pair, another mismatch is reported for them only, and neither side
\* is advanced further or held back.
C22_NoResynchronization ==
  [][ (Mismatched /\ steps' = steps + 1) =>
        LET e1 == Nth(inputs[1], steps + 1)
            e2 == Nth(inputs[2], steps + 1)
        IN /\ pulled' = << e1, e2 >>
           /\ records_r1' = After(inputs[1], steps + 1)
           /\ records_r2' = After(inputs[2], steps + 1)
           /\ (IsSomeOk(e1) /\ IsSomeOk(e2) /\ e1[1].val.id = e2[1].val.id) =>
                 item' = Some(Ok(PairedRecord(e1[1].val, e2[1].val)))
           /\ (IsSomeOk(e1) /\ IsSomeOk(e2) /\ e1[1].val.id # e2[1].val.id) =>
                 /\ IsSomeErr(item')
                 /\ item'[1].kind = "InvalidData"
           /\ (e1 = None /\ e2 = None) => item' = None
    ]_vars

C22_Witness ==
  /\ steps = 2
  /\ Len(inputs[1]) = 2
  /\ Len(inputs[2]) = 2
  /\ IsSomeOk(Nth(inputs[1], 1))
  /\ IsSomeOk(Nth(inputs[2], 1))
  /\ inputs[1][1].val.id # inputs[2][1].val.id
  /\ inputs[1][2] = Ok(Record("id_b", << >>))
  /\ inputs[2][2] = Ok(Record("id_b", << 65 >>))
  /\ item = Some(Ok(PairedRecord(Record("id_b", << >>), Record("id_b", << 65 >>))))

\* the calls, in order, that were the first with their fingerprint
RECURSIVE FirstSeen(_)
FirstSeen(n) ==
  IF n = 0 THEN << >>
  ELSE IF \E j \in 1..(n - 1) : calls[j].hash = calls[n].hash
       THEN FirstSeen(n - 1)
       ELSE Append(FirstSeen(n - 1), calls[n])

\* the calls, in order, whose insert returned true
RECURSIVE SignalledNew(_)
SignalledNew(n) ==
  IF n = 0 THEN << >>
  ELSE IF calls[n].ret = Ok(TRUE)
       THEN Append(SignalledNew(n - 1), calls[n])
       ELSE SignalledNew(n - 1)

\* run_dedup is in or past its loop and no error has arisen
ErrorFree ==
  /\ pc \in {"loop", "report", "done"}
  /\ result = None \/ result[1].tag = "Ok"

\* C23: as long as a run meets no error, each deduped output holds exactly the
\* records whose insert returned true, in input order (in paired mode the r1
\* members in the first output and the r2 members in the second); these are
\* the first-seen records of the clusters in order of first appearance, and
\* each output holds unique_records records.
C23_DeduplicatedOutput ==
  ErrorFree =>
    LET signalled == SignalledNew(Len(calls))
        first == FirstSeen(Len(calls))
    IN /\ signalled = first
       /\ Len(writer_r1[1]) = unique_records
       /\ mode = "single" =>
             /\ writer_r1[1] = [i \in 1..Len(first) |-> first[i].record]
             /\ writer_r2 = None
       /\ mode = "paired" =>
             /\ writer_r1[1] = [i \in 1..Len(first) |-> first[i].record.r1]
             /\ writer_r2[1] = [i \in 1..Len(first) |-> first[i].record.r2]
             /\ Len(writer_r2[1]) = unique_records

C23_Witness ==
  /\ pc = "done"
  /\ mode = "paired"
  /\ result # None
  /\ result[1].tag = "Ok"
  /\ result[1].val.unique_records = 2
  /\ Len(writer_r1[1]) = 2
  /\ Len(writer_r2[1]) = 2
  /\ writer_r1[1][1].id = "id_b"
  /\ writer_r1[1][2].id = "id_a"
  /\ writer_r1[1][1] # writer_r2[1][1]

\* the element the last pull of the first input yielded
LastRead == Nth(inputs[1], pulls[1])

\* C24: each record or pair is read, self-checked, inserted and written before
\* the next one is read, so between two reads every record read so far has
\* been inserted; a record or pair whose self-check fails is never inserted
\* and total_records does not count it; for a pair r1 is checked before r2 and
\* the error names the first failing member.
C24_CheckBeforeInsert ==
  pc \in {"loop", "report", "done"} =>
    /\ total_records = Len(calls)
    /\ Len(calls) <= pulls[1]
    /\ pc = "loop" =>
          /\ Len(calls) = pulls[1]
          /\ Len(writer_r1[1]) = unique_records
    /\ mode = "single" =>
          /\ \A i \in CallIds : calls[i].record.check = Ok(<< >>)
          /\ (pulls[1] > 0 /\ IsSomeOk(LastRead) /\ LastRead[1].val.check.tag = "Err") =>
                /\ result = Some(Err("SimpleError", LastRead[1].val.check.msg))
                /\ total_records = pulls[1] - 1
    /\ mode = "paired" =>
          /\ \A i \in CallIds :
                /\ calls[i].record.r1.check = Ok(<< >>)
                /\ calls[i].record.r2.check = Ok(<< >>)
          /\ (Stepped /\ IsSomeOk(item) /\ item[1].val.r1.check.tag = "Err") =>
                /\ result = Some(Err("SimpleError", "r1: " \o item[1].val.r1.check.msg))
                /\ total_records = steps - 1
          /\ ( /\ Stepped
               /\ IsSomeOk(item)
               /\ item[1].val.r1.check.tag = "Ok"
               /\ item[1].val.r2.check.tag = "Err" ) =>
                /\ result = Some(Err("SimpleError", "r2: " \o item[1].val.r2.check.msg))
                /\ total_records = steps - 1

C24_Witness ==
  /\ mode = "paired"
  /\ steps = 2
  /\ IsSomeOk(item)
  /\ item[1].val.r1.check.tag = "Err"
  /\ item[1].val.r2.check.tag = "Err"
  /\ result = Some(Err("SimpleError", "r1: Non-ascii character found in sequence."))
  /\ total_records = 1
  /\ Len(calls) = 1

\* C25: every insert changes at most one cluster. A hit adds one to the size
\* of the cluster of the fingerprint and leaves its representative, the set of
\* clusters and every other cluster as they were; a miss adds exactly one
\* cluster, of size 1, and leaves the existing ones as they were. So no
\* cluster is deleted, no representative changes, and every size is at least
\* 1 and never decreases.
C25_ClusterFrame ==
  [][ calls' # calls =>
        LET h == calls'[Len(calls')].hash IN
        /\ h \in DOMAIN cluster_map =>
              /\ DOMAIN cluster_map' = DOMAIN cluster_map
              /\ cluster_map'[h].id = cluster_map[h].id
              /\ cluster_map'[h].size = cluster_map[h].size + 1
        /\ h \notin DOMAIN cluster_map =>
              /\ DOMAIN cluster_map' = DOMAIN cluster_map \cup {h}
              /\ cluster_map'[h].size = 1
        /\ \A k \in DOMAIN cluster_map \ {h} : cluster_map'[k] = cluster_map[k]
        /\ \A k \in DOMAIN cluster_map :
              /\ k \in DOMAIN cluster_map'
              /\ cluster_map'[k].id = cluster_map[k].id
              /\ cluster_map'[k].size >= cluster_map[k].size
        /\ \A k \in DOMAIN cluster_map' : cluster_map'[k].size >= 1
    ]_vars

C25_Witness ==
  /\ Len(calls) = 3
  /\ calls[1].hash = calls[3].hash
  /\ calls[1].hash # calls[2].hash
  /\ calls[1].id = "id_a"
  /\ calls[3].id = "id_b"
  /\ cluster_map[calls[1].hash] = [id |-> "id_a", size |-> 2]
  /\ cluster_map[calls[2].hash].size = 1

\* C26: after the header, a write_sizes call that returns Ok has written the
\* rows of the clusters in the order in which the clusters were created, the
\* cluster of the first record first.
C26_RowsInCreationOrder ==
  sizes_ret = Some(Ok(<< >>)) =>
    LET first == FirstSeen(Len(calls))
    IN Tail(cluster_sizes_writer[1]) =
         [i \in 1..Len(first) |->
            << cluster_map[first[i].hash].id,
               to_string(cluster_map[first[i].hash].size) >>]

\* the sequences of the record or pair of a call
CallSeqs(call) ==
  IF mode = "single" THEN {call.record.seq}
  ELSE {call.record.r1.seq, call.record.r2.seq}

\* t is longer than s and starts with s
Extends(t, s) == Len(t) > Len(s) /\ SubSeq(t, 1, Len(s)) = s

\* C27: the prefix get_prefix takes is the first min(P, len(sequence)) bytes,
\* never more than the sequence holds. With P = 0, or when all sequences are
\* empty, every inserted record falls in one cluster, whose representative is
\* the first record. With P larger than the length of a sequence the whole
\* sequence is used, so a record whose sequence is shorter than P and a
\* record whose longer sequence extends it are not in one cluster.
C27_PrefixEdgeCases ==
  /\ (mode = "single" /\ prefix_length_opt # None) =>
        \A i \in CallIds :
          LET seq == calls[i].record.seq
              n == Min(prefix_length_opt[1], Len(seq))
          IN /\ n <= Len(seq)
             /\ calls[i].hash = finish([k \in 1..n |-> seq[k]])
  /\ ( /\ calls # << >>
       /\ \/ prefix_length_opt = Some(0)
          \/ \A i \in CallIds : CallSeqs(calls[i]) = {<< >>} ) =>
        /\ unique_records = 1
        /\ \A i \in CallIds :
              /\ calls[i].hash = calls[1].hash
              /\ cluster_map[calls[i].hash] = [id |-> calls[1].id, size |-> Len(calls)]
  /\ (mode = "single" /\ prefix_length_opt # None) =>
        \A i \in CallIds, j \in CallIds :
          ( /\ Len(calls[i].record.seq) < prefix_length_opt[1]
            /\ Extends(calls[j].record.seq, calls[i].record.seq) )
          => calls[i].hash # calls[j].hash

C27_Witness ==
  /\ mode = "single"
  /\ prefix_length_opt = Some(2)
  /\ Len(calls) = 2
  /\ calls[1].record.seq = << 65 >>
  /\ calls[2].record.seq = << 65, 0 >>
  /\ calls[2].ret = Ok(TRUE)
  /\ unique_records = 2

====
